---- MODULE Spec2Model ----
(***************************************************************************)
(* Crawl/download pipeline of raymanovg/isric.                             *)
(*                                                                         *)
(* Two builds of the program live in the repository:                       *)
(*   "signal" : src/unnamed/part_000, the supervisor with the shared       *)
(*              terminate channel, the run() helper and the two polls;     *)
(*   "plain"  : src/main.go, no cancellation, main waits on the WaitGroup. *)
(* The build is fixed in the initial state and never changes.              *)
(*                                                                         *)
(* A page body is abstracted to the number of matches the regular          *)
(* expression finds in it (the bodies of one run hold at most MaxLinks     *)
(* matches in all); a discovered URL is abstracted to the index of       *)
(* its match (sub-page p, file f of sub-page p).  The page ranges of the   *)
(* configuration are taken to compile as regular expressions.              *)
(*                                                                         *)
(* Three further specifications work on concrete values: SpecTpl applies   *)
(* buildLinkTemplates to page ranges, SpecCrawl runs parseURLs, getTifUrls *)
(* and createFile on page bodies given as text, and SpecFs runs download   *)
(* of several Jobs against one filesystem.  Text is a sequence of tokens.  *)
(***************************************************************************)
EXTENDS Integers, Sequences, FiniteSets, TLC

\* ---- bounds of the model ----
MaxJobs == 2
MaxLinks == 4
MaxRanges == 2      \* page ranges handed to buildLinkTemplates
MaxRangeLen == 3    \* tokens of one page range
MaxItems == 2       \* hrefs and line ends of one page body
MaxDownloads == 3   \* downloads started in one run of the filesystem model

Jobs == 1..MaxJobs

VARIABLES
    build,      \* "signal" (part_000) or "plain" (main.go)
    pages,      \* len(config.Pages)
    proc,       \* "running", or how the process ended
    mainPc,     \* position of main: "select", "sleeping"
    signalCh,   \* TRUE when a signal is buffered in signalCh (capacity 1)
    terminate,  \* TRUE when the terminate channel is closed
    done,       \* TRUE when the done channel is closed
    spawned,    \* number of iterations of the spawn loop already executed
    runPc,      \* "loop" (spawning / waiting on wg) or "returned"
    wg,         \* counter of the sync.WaitGroup
    pc,         \* pc[j]: position of the goroutine running handle for job j
    urlsCh,     \* urlsCh[j]: channel returned by parseURLs and its producer
    tifCh,      \* tifCh[j]: channel returned by getTifUrls and its producer
    pageUrl,    \* pageUrl[j]: loop variable of the outer range (0: none yet)
    fileUrl,    \* fileUrl[j]: loop variable of the inner range
    inflight,   \* inflight[j]: HTTP requests issued by job j and not yet returned
    lastReq,    \* lastReq[j]: the HTTP request job j issued last
    pageErrLog, \* pageErrLog[j]: sub-pages whose fetch failure was logged
    served,     \* number of matching hrefs in the bodies fetched so far
    crawl,      \* the discovery functions applied to concrete text (SpecTpl, SpecCrawl)
    disk,       \* the local filesystem: directories and files (SpecFs)
    dl,         \* dl[j]: position of job j inside download (SpecFs)
    fsLog       \* history of the downloads, kept for the properties (SpecFs)

\* The variables of the process model (Spec, FairSpec).
progVars == <<build, pages, proc, mainPc, signalCh, terminate, done, spawned,
              runPc, wg, pc, urlsCh, tifCh, pageUrl, fileUrl, inflight, lastReq,
              pageErrLog, served>>

\* The variables of the text and filesystem models; the process model leaves
\* them alone.
auxVars == <<crawl, disk, dl, fsLog>>

vars == <<progVars, auxVars>>

supVars == <<mainPc, signalCh, terminate, done, spawned, runPc, wg>>
cfgVars == <<build, pages>>

\* ---- requests ----
NoReq == <<"none", 0, 0>>
RootReq == <<"root", 0, 0>>
PageReq(p) == <<"page", p, 0>>
FileReq(p, f) == <<"file", p, f>>

\* ---- channels ----
\* A channel that has not been made yet.
NoChan == [state |-> "none", page |-> 0, total |-> 0, sent |-> 0]

\* make(chan url.URL) plus the producer goroutine: total matches, none sent.
MakeChan(p, n) == [state |-> "open", page |-> p, total |-> n, sent |-> 0]

\* The producer still has a match to send: it is blocked on (or about to
\* reach) the send on the unbuffered channel.
Sending(ch) == ch.state = "open" /\ ch.sent < ch.total

\* The producer's loop over the matches is over.
Exhausted(ch) == ch.state = "open" /\ ch.sent = ch.total

\* Faulty variant of NextMatch: the matches are sent last first.
NextMatchReversed(ch) == ch.total - ch.sent

\* The match the producer sends next: matches are sent in order of appearance.
NextMatch(ch) == ch.sent + 1

Returned == {"done", "aborted", "cancelled"}

\* A url.URL, as far as the program looks at it.
URL(scheme, host, p) == [scheme |-> scheme, host |-> host, path |-> p]
NoURL == URL("", "", <<>>)

\* No file has been asked for yet.
NoTarget ==
    [outcome |-> "none", dir |-> <<>>, file |-> <<>>,
     dirExisted |-> FALSE, mkdir |-> FALSE]

\* Nothing has been handed to the discovery functions.
NoCrawl ==
    [stage |-> "none", ranges |-> <<>>, tpls |-> <<>>, targetDir |-> <<>>,
     root |-> NoURL, items |-> <<>>, urls |-> <<>>, page |-> NoURL,
     file |-> NoURL, target |-> NoTarget]

\* An empty filesystem, no download under way, nothing downloaded.
NoDisk == [dirs |-> {}, files |-> {}]
NoDownload == [pc |-> "idle", url |-> 0, off |-> 0]
NoLog == [started |-> 0, lastOk |-> {}, raced |-> {}]

InitProgram ==
    /\ build \in {"signal", "plain"}
    /\ pages \in 0..MaxJobs
    /\ proc = "running"
    /\ mainPc = "select"
    /\ signalCh = FALSE
    /\ terminate = FALSE
    /\ done = FALSE
    /\ spawned = 0
    /\ runPc = "loop"
    /\ wg = 0
    /\ pc = [j \in Jobs |-> "idle"]
    /\ urlsCh = [j \in Jobs |-> NoChan]
    /\ tifCh = [j \in Jobs |-> NoChan]
    /\ pageUrl = [j \in Jobs |-> 0]
    /\ fileUrl = [j \in Jobs |-> <<0, 0>>]
    /\ inflight = [j \in Jobs |-> {}]
    /\ lastReq = [j \in Jobs |-> NoReq]
    /\ pageErrLog = [j \in Jobs |-> {}]
    /\ served = 0

Init ==
    /\ InitProgram
    /\ crawl = NoCrawl
    /\ disk = NoDisk
    /\ dl = [j \in Jobs |-> NoDownload]
    /\ fsLog = NoLog

\* ======================= supervisor =======================

\* The operating system delivers SIGINT/SIGTERM; signal.Notify does a
\* non-blocking send on the buffered channel (a signal is dropped when full).
Signal ==
    /\ proc = "running"
    /\ build = "signal"
    /\ ~signalCh
    /\ signalCh' = TRUE
    /\ UNCHANGED <<cfgVars, auxVars, proc, mainPc, terminate, done, spawned, runPc, wg,
                   pc, urlsCh, tifCh, pageUrl, fileUrl, inflight, lastReq,
                   pageErrLog, served>>

\* Faulty variant of MainOnSignal: main sleeps without closing terminate.
MainOnSignalNoClose ==
    /\ proc = "running"
    /\ build = "signal"
    /\ mainPc = "select"
    /\ signalCh
    /\ signalCh' = FALSE
    /\ mainPc' = "sleeping"
    /\ UNCHANGED <<cfgVars, auxVars, proc, terminate, done, spawned, runPc, wg,
                   pc, urlsCh, tifCh, pageUrl, fileUrl, inflight, lastReq,
                   pageErrLog, served>>

\* main: case <-signalCh: close(terminate), then time.Sleep starts.
MainOnSignal ==
    /\ proc = "running"
    /\ build = "signal"
    /\ mainPc = "select"
    /\ signalCh
    /\ signalCh' = FALSE
    /\ terminate' = TRUE
    /\ mainPc' = "sleeping"
    /\ UNCHANGED <<cfgVars, auxVars, proc, done, spawned, runPc, wg,
                   pc, urlsCh, tifCh, pageUrl, fileUrl, inflight, lastReq,
                   pageErrLog, served>>

\* main: time.Sleep(5s) is over, main returns and the process exits.
MainGraceExit ==
    /\ proc = "running"
    /\ build = "signal"
    /\ mainPc = "sleeping"
    /\ proc' = "exitGrace"
    /\ UNCHANGED <<cfgVars, auxVars, supVars,
                   pc, urlsCh, tifCh, pageUrl, fileUrl, inflight, lastReq,
                   pageErrLog, served>>

\* Faulty variant of MainOnDone: completion also goes through the shutdown
\* path (terminate closed, grace sleep).
MainOnDoneCancel ==
    /\ proc = "running"
    /\ build = "signal"
    /\ mainPc = "select"
    /\ done
    /\ terminate' = TRUE
    /\ mainPc' = "sleeping"
    /\ UNCHANGED <<cfgVars, auxVars, proc, signalCh, done, spawned, runPc, wg,
                   pc, urlsCh, tifCh, pageUrl, fileUrl, inflight, lastReq,
                   pageErrLog, served>>

\* main: case <-done: print "Done", main returns and the process exits.
MainOnDone ==
    /\ proc = "running"
    /\ build = "signal"
    /\ mainPc = "select"
    /\ done
    /\ proc' = "exitDone"
    /\ UNCHANGED <<cfgVars, auxVars, supVars,
                   pc, urlsCh, tifCh, pageUrl, fileUrl, inflight, lastReq,
                   pageErrLog, served>>

\* run: one iteration of the loop over config.Pages: wg.Add(1); go func...
RunSpawn ==
    /\ proc = "running"
    /\ runPc = "loop"
    /\ spawned < pages
    /\ spawned' = spawned + 1
    /\ wg' = wg + 1
    /\ pc' = [pc EXCEPT ![spawned + 1] = "start"]
    /\ UNCHANGED <<cfgVars, auxVars, proc, mainPc, signalCh, terminate, done, runPc,
                   urlsCh, tifCh, pageUrl, fileUrl, inflight, lastReq,
                   pageErrLog, served>>

\* Faulty variant of RunWait: completion is signalled without waiting for
\* the WaitGroup counter to reach zero.
RunWaitNoWait ==
    /\ proc = "running"
    /\ runPc = "loop"
    /\ spawned = pages
    /\ runPc' = "returned"
    /\ IF build = "signal"
         THEN done' = TRUE /\ proc' = proc
         ELSE done' = done /\ proc' = "exitDone"
    /\ UNCHANGED <<cfgVars, auxVars, mainPc, signalCh, terminate, spawned, wg,
                   pc, urlsCh, tifCh, pageUrl, fileUrl, inflight, lastReq,
                   pageErrLog, served>>

\* run: wg.Wait() returns; part_000 then closes done, main.go returns from
\* main and the process exits.
RunWait ==
    /\ proc = "running"
    /\ runPc = "loop"
    /\ spawned = pages
    /\ wg = 0
    /\ runPc' = "returned"
    /\ IF build = "signal"
         THEN done' = TRUE /\ proc' = proc
         ELSE done' = done /\ proc' = "exitDone"
    /\ UNCHANGED <<cfgVars, auxVars, mainPc, signalCh, terminate, spawned, wg,
                   pc, urlsCh, tifCh, pageUrl, fileUrl, inflight, lastReq,
                   pageErrLog, served>>

\* ======================= handle =======================

\* handle returns with outcome r; the goroutine of run prints the failure
\* if there is one and calls wg.Done().
Return(j, r) ==
    /\ pc' = [pc EXCEPT ![j] = r]
    /\ wg' = wg - 1

\* url.Parse(params.Url), *parsedUrl, then getHTML(baseURL) issues the
\* request.  When the URL does not parse, parsedUrl is nil and the
\* dereference panics: the process dies.
HandleStart(j) ==
    /\ proc = "running"
    /\ pc[j] = "start"
    /\ \E parsed \in BOOLEAN :
         IF parsed
           THEN /\ pc' = [pc EXCEPT ![j] = "fetchingRoot"]
                /\ inflight' = [inflight EXCEPT ![j] = @ \cup {RootReq}]
                /\ lastReq' = [lastReq EXCEPT ![j] = RootReq]
                /\ proc' = proc
           ELSE /\ pc' = [pc EXCEPT ![j] = "panic"]
                /\ proc' = "panic"
                /\ UNCHANGED <<inflight, lastReq>>
    /\ UNCHANGED <<cfgVars, auxVars, supVars, urlsCh, tifCh, pageUrl, fileUrl,
                   pageErrLog, served>>

\* getHTML(baseURL) returns.  On error handle returns the error; otherwise
\* parseURLs makes the channel and starts its producer over the n matches.
HandleRootFetched(j) ==
    /\ proc = "running"
    /\ pc[j] = "fetchingRoot"
    /\ inflight' = [inflight EXCEPT ![j] = @ \ {RootReq}]
    /\ \/ /\ Return(j, "aborted")
          /\ UNCHANGED <<urlsCh, served>>
       \/ /\ \E n \in 0..(MaxLinks - served) :
               /\ urlsCh' = [urlsCh EXCEPT ![j] = MakeChan(0, n)]
               /\ served' = served + n
          /\ pc' = [pc EXCEPT ![j] = "recvPage"]
          /\ wg' = wg
    /\ UNCHANGED <<cfgVars, auxVars, proc, mainPc, signalCh, terminate, done, spawned,
                   runPc, tifCh, pageUrl, fileUrl, lastReq, pageErrLog>>

\* range over the channel of parseURLs: the producer's send and the
\* consumer's receive meet on the unbuffered channel.  part_000 then reaches
\* the first select; main.go goes straight to getHTML.
HandleRecvPage(j) ==
    /\ proc = "running"
    /\ pc[j] = "recvPage"
    /\ Sending(urlsCh[j])
    /\ pageUrl' = [pageUrl EXCEPT ![j] = NextMatch(urlsCh[j])]
    /\ urlsCh' = [urlsCh EXCEPT ![j].sent = @ + 1]
    /\ pc' = [pc EXCEPT ![j] = IF build = "signal" THEN "pollPage" ELSE "fetchPage"]
    /\ UNCHANGED <<cfgVars, auxVars, proc, supVars, tifCh, fileUrl, inflight, lastReq,
                   pageErrLog, served>>

\* parseURLs, main.go only: close(urlChan) after the last match is sent.
\* In part_000 the producer goroutine just ends and the channel stays open.
ParseURLsClose(j) ==
    /\ proc = "running"
    /\ build = "plain"
    /\ Exhausted(urlsCh[j])
    /\ urlsCh' = [urlsCh EXCEPT ![j].state = "closed"]
    /\ UNCHANGED <<cfgVars, auxVars, proc, supVars, pc, tifCh, pageUrl, fileUrl,
                   inflight, lastReq, pageErrLog, served>>

\* The outer range sees the channel closed: the loop ends, handle returns nil.
HandleUrlsClosed(j) ==
    /\ proc = "running"
    /\ pc[j] = "recvPage"
    /\ urlsCh[j].state = "closed"
    /\ Return(j, "done")
    /\ UNCHANGED <<cfgVars, auxVars, proc, mainPc, signalCh, terminate, done, spawned,
                   runPc, urlsCh, tifCh, pageUrl, fileUrl, inflight, lastReq,
                   pageErrLog, served>>

\* Faulty variant of HandlePollPage: the select always takes the default.
HandlePollPageNoCheck(j) ==
    /\ proc = "running"
    /\ pc[j] = "pollPage"
    /\ pc' = [pc EXCEPT ![j] = "fetchPage"]
    /\ UNCHANGED <<cfgVars, auxVars, proc, supVars, urlsCh, tifCh, pageUrl, fileUrl,
                   inflight, lastReq, pageErrLog, served>>

\* First select of handle: terminate closed -> return nil, else fall through.
HandlePollPage(j) ==
    /\ proc = "running"
    /\ pc[j] = "pollPage"
    /\ IF terminate
         THEN Return(j, "cancelled")
         ELSE pc' = [pc EXCEPT ![j] = "fetchPage"] /\ wg' = wg
    /\ UNCHANGED <<cfgVars, auxVars, proc, mainPc, signalCh, terminate, done, spawned,
                   runPc, urlsCh, tifCh, pageUrl, fileUrl, inflight, lastReq,
                   pageErrLog, served>>

\* getHTML(pageUrl): the request for the sub-page is issued.
HandleFetchPage(j) ==
    /\ proc = "running"
    /\ pc[j] = "fetchPage"
    /\ pc' = [pc EXCEPT ![j] = "fetchingPage"]
    /\ inflight' = [inflight EXCEPT ![j] = @ \cup {PageReq(pageUrl[j])}]
    /\ lastReq' = [lastReq EXCEPT ![j] = PageReq(pageUrl[j])]
    /\ UNCHANGED <<cfgVars, auxVars, proc, supVars, urlsCh, tifCh, pageUrl, fileUrl,
                   pageErrLog, served>>

\* Faulty variant of HandlePageFetched: a failed sub-page fetch is logged
\* and handle returns instead of continuing.
HandlePageFetchedAbort(j) ==
    /\ proc = "running"
    /\ pc[j] = "fetchingPage"
    /\ inflight' = [inflight EXCEPT ![j] = @ \ {PageReq(pageUrl[j])}]
    /\ \/ /\ pageErrLog' = [pageErrLog EXCEPT ![j] = @ \cup {pageUrl[j]}]
          /\ Return(j, "aborted")
          /\ UNCHANGED <<tifCh, served>>
       \/ /\ \E n \in 0..(MaxLinks - served) :
               /\ tifCh' = [tifCh EXCEPT ![j] = MakeChan(pageUrl[j], n)]
               /\ served' = served + n
          /\ pc' = [pc EXCEPT ![j] = "recvFile"]
          /\ wg' = wg
          /\ UNCHANGED pageErrLog
    /\ UNCHANGED <<cfgVars, auxVars, proc, mainPc, signalCh, terminate, done, spawned,
                   runPc, urlsCh, pageUrl, fileUrl, lastReq>>

\* getHTML(pageUrl) returns.  On error: log and continue with the next
\* sub-page.  Otherwise getTifUrls makes the channel and starts its producer
\* over the n matches of the sub-page body.
HandlePageFetched(j) ==
    /\ proc = "running"
    /\ pc[j] = "fetchingPage"
    /\ inflight' = [inflight EXCEPT ![j] = @ \ {PageReq(pageUrl[j])}]
    /\ \/ /\ pageErrLog' = [pageErrLog EXCEPT ![j] = @ \cup {pageUrl[j]}]
          /\ pc' = [pc EXCEPT ![j] = "recvPage"]
          /\ UNCHANGED <<tifCh, served>>
       \/ /\ \E n \in 0..(MaxLinks - served) :
               /\ tifCh' = [tifCh EXCEPT ![j] = MakeChan(pageUrl[j], n)]
               /\ served' = served + n
          /\ pc' = [pc EXCEPT ![j] = "recvFile"]
          /\ UNCHANGED pageErrLog
    /\ UNCHANGED <<cfgVars, auxVars, proc, supVars, urlsCh, pageUrl, fileUrl, lastReq>>

\* range over the channel of getTifUrls: send and receive meet.  part_000
\* then reaches the second select; main.go goes straight to download.
HandleRecvFile(j) ==
    /\ proc = "running"
    /\ pc[j] = "recvFile"
    /\ Sending(tifCh[j])
    /\ fileUrl' = [fileUrl EXCEPT ![j] = <<tifCh[j].page, NextMatch(tifCh[j])>>]
    /\ tifCh' = [tifCh EXCEPT ![j].sent = @ + 1]
    /\ pc' = [pc EXCEPT ![j] = IF build = "signal" THEN "pollFile" ELSE "download"]
    /\ UNCHANGED <<cfgVars, auxVars, proc, supVars, urlsCh, pageUrl, inflight, lastReq,
                   pageErrLog, served>>

\* getTifUrls, main.go only: close(urlChan) after the last match is sent.
GetTifUrlsClose(j) ==
    /\ proc = "running"
    /\ build = "plain"
    /\ Exhausted(tifCh[j])
    /\ tifCh' = [tifCh EXCEPT ![j].state = "closed"]
    /\ UNCHANGED <<cfgVars, auxVars, proc, supVars, pc, urlsCh, pageUrl, fileUrl,
                   inflight, lastReq, pageErrLog, served>>

\* The inner range sees the channel closed: the inner loop ends, its channel
\* and loop variable go out of scope, the outer range receives again.
HandleTifClosed(j) ==
    /\ proc = "running"
    /\ pc[j] = "recvFile"
    /\ tifCh[j].state = "closed"
    /\ pc' = [pc EXCEPT ![j] = "recvPage"]
    /\ tifCh' = [tifCh EXCEPT ![j] = NoChan]
    /\ fileUrl' = [fileUrl EXCEPT ![j] = <<0, 0>>]
    /\ UNCHANGED <<cfgVars, auxVars, proc, supVars, urlsCh, pageUrl, inflight, lastReq,
                   pageErrLog, served>>

\* Faulty variant of HandlePollFile: the select always takes the default.
HandlePollFileNoCheck(j) ==
    /\ proc = "running"
    /\ pc[j] = "pollFile"
    /\ pc' = [pc EXCEPT ![j] = "download"]
    /\ UNCHANGED <<cfgVars, auxVars, proc, supVars, urlsCh, tifCh, pageUrl, fileUrl,
                   inflight, lastReq, pageErrLog, served>>

\* Second select of handle: terminate closed -> return nil, else fall through.
HandlePollFile(j) ==
    /\ proc = "running"
    /\ pc[j] = "pollFile"
    /\ IF terminate
         THEN Return(j, "cancelled")
         ELSE pc' = [pc EXCEPT ![j] = "download"] /\ wg' = wg
    /\ UNCHANGED <<cfgVars, auxVars, proc, mainPc, signalCh, terminate, done, spawned,
                   runPc, urlsCh, tifCh, pageUrl, fileUrl, inflight, lastReq,
                   pageErrLog, served>>

\* download(fileUrl): the progress line is printed and the request issued.
HandleDownload(j) ==
    /\ proc = "running"
    /\ pc[j] = "download"
    /\ pc' = [pc EXCEPT ![j] = "downloading"]
    /\ inflight' = [inflight EXCEPT ![j] = @ \cup {FileReq(fileUrl[j][1], fileUrl[j][2])}]
    /\ lastReq' = [lastReq EXCEPT ![j] = FileReq(fileUrl[j][1], fileUrl[j][2])]
    /\ UNCHANGED <<cfgVars, auxVars, proc, supVars, urlsCh, tifCh, pageUrl, fileUrl,
                   pageErrLog, served>>

\* Outcomes of download: the request fails, createFile fails (MkdirAll or
\* os.Create), or the body is copied to the file.
DownloadOutcomes == {"reqErr", "fileErr", "ok"}

\* download returns.  A failed request ends in log.Fatalf, which exits the
\* process with status 1; a createFile error is returned, logged by handle,
\* and the inner range receives again, as it does after a completed copy.
HandleDownloaded(j) ==
    /\ proc = "running"
    /\ pc[j] = "downloading"
    /\ \E out \in DownloadOutcomes :
         IF out = "reqErr"
           THEN /\ proc' = "fatal"
                /\ pc' = [pc EXCEPT ![j] = "fatal"]
                /\ UNCHANGED inflight
           ELSE /\ proc' = proc
                /\ pc' = [pc EXCEPT ![j] = "recvFile"]
                /\ inflight' = [inflight EXCEPT ![j] =
                                  @ \ {FileReq(fileUrl[j][1], fileUrl[j][2])}]
    /\ UNCHANGED <<cfgVars, auxVars, supVars, urlsCh, tifCh, pageUrl, fileUrl, lastReq,
                   pageErrLog, served>>

\* All the steps of the goroutine of job j and of its two producers.
JobStep(j) ==
    \/ HandleStart(j)
    \/ HandleRootFetched(j)
    \/ HandleRecvPage(j)
    \/ ParseURLsClose(j)
    \/ HandleUrlsClosed(j)
    \/ HandlePollPage(j)
    \/ HandleFetchPage(j)
    \/ HandlePageFetched(j)
    \/ HandleRecvFile(j)
    \/ GetTifUrlsClose(j)
    \/ HandleTifClosed(j)
    \/ HandlePollFile(j)
    \/ HandleDownload(j)
    \/ HandleDownloaded(j)

Next ==
    \/ Signal
    \/ MainOnSignal
    \/ MainGraceExit
    \/ MainOnDone
    \/ RunSpawn
    \/ RunWait
    \/ \E j \in Jobs : HandleStart(j)
    \/ \E j \in Jobs : HandleRootFetched(j)
    \/ \E j \in Jobs : HandleRecvPage(j)
    \/ \E j \in Jobs : ParseURLsClose(j)
    \/ \E j \in Jobs : HandleUrlsClosed(j)
    \/ \E j \in Jobs : HandlePollPage(j)
    \/ \E j \in Jobs : HandleFetchPage(j)
    \/ \E j \in Jobs : HandlePageFetched(j)
    \/ \E j \in Jobs : HandleRecvFile(j)
    \/ \E j \in Jobs : GetTifUrlsClose(j)
    \/ \E j \in Jobs : HandleTifClosed(j)
    \/ \E j \in Jobs : HandlePollFile(j)
    \/ \E j \in Jobs : HandleDownload(j)
    \/ \E j \in Jobs : HandleDownloaded(j)

Spec == Init /\ [][Next]_vars

\* The Go scheduler runs every runnable goroutine: each job, the spawn loop
\* and main's select on a closed done channel make progress.  Signals are up
\* to the environment, and the grace timer is left without fairness so that
\* the jobs get all the time they need.
FairSpec ==
    /\ Spec
    /\ \A j \in Jobs : WF_vars(JobStep(j))
    /\ WF_vars(RunSpawn)
    /\ WF_vars(RunWait)
    /\ WF_vars(MainOnDone)

TypeOK ==
    /\ build \in {"signal", "plain"}
    /\ pages \in 0..MaxJobs
    /\ proc \in {"running", "exitDone", "exitGrace", "fatal", "panic"}
    /\ mainPc \in {"select", "sleeping"}
    /\ signalCh \in BOOLEAN /\ terminate \in BOOLEAN /\ done \in BOOLEAN
    /\ spawned \in 0..pages
    /\ wg \in 0..pages
    /\ \A j \in Jobs : urlsCh[j].sent <= urlsCh[j].total
    /\ \A j \in Jobs : tifCh[j].sent <= tifCh[j].total

\* ======================= properties =======================

\* The requests job j issues in this step.
NewReqs(j) == inflight'[j] \ inflight[j]

InFlightPcs == {"fetchingRoot", "fetchingPage", "downloading"}
PollPassedPcs == {"fetchPage", "download"}

\* C1 (as stated): once terminate is closed, no job issues a sub-page fetch
\* or a file download any more.
C1_NoStartAfterCancel ==
    [][terminate => \A j \in Jobs : \A r \in NewReqs(j) : r[1] \notin {"page", "file"}]_vars

\* C1 (amended): once terminate is closed no job passes a cancellation poll
\* any more, and a sub-page fetch or download is only issued by a job that
\* has already passed its poll; requests in flight are left alone and can
\* still complete.
C1_NoPollPassesAfterCancel ==
    /\ [][terminate =>
            \A j \in Jobs :
              /\ pc'[j] \in PollPassedPcs => pc[j] = pc'[j]
              /\ \A r \in NewReqs(j) : r[1] \in {"page", "file"} => pc[j] \in PollPassedPcs
              /\ inflight[j] # {} /\ pc'[j] = pc[j] => inflight'[j] = inflight[j]]_vars
    /\ [](terminate /\ proc = "running" =>
            \A j \in Jobs :
              /\ pc[j] = "fetchingPage" => ENABLED HandlePageFetched(j)
              /\ pc[j] = "downloading" => ENABLED HandleDownloaded(j))

\* One job has returned at a poll after the cancellation while another is
\* still in a request issued after its own poll.
C1_Witness ==
    /\ terminate
    /\ \E j, k \in Jobs :
         /\ j # k
         /\ pc[j] = "cancelled"
         /\ pc[k] \in {"fetchingPage", "downloading"}

\* C2: a job whose root page was fetched, in a run that is never cancelled,
\* eventually returns from handle with outcome Done.  (In part_000 a job
\* that waits in `range` on a stream whose producer has ended has no step
\* left: nothing ever closes the channel.)
C2_JobReachesDone ==
    \A j \in Jobs :
      (pc[j] = "recvPage") ~> (pc[j] = "done" \/ terminate \/ proc # "running")

\* C3: a download that ends, however it fails, leaves the process running
\* and its job back at the range over the file stream.
C3_DownloadFailureIsolated ==
    [][\A j \in Jobs :
         pc[j] = "downloading" /\ pc'[j] # "downloading"
           => pc'[j] = "recvFile" /\ proc' = "running"]_vars

\* The state of job j outside the shared supervisor variables.
JobState(j) ==
    <<pc[j], urlsCh[j], tifCh[j], pageUrl[j], fileUrl[j], inflight[j],
      lastReq[j], pageErrLog[j]>>

\* C4: a failed sub-page fetch is logged, starts no file stream for that
\* sub-page, sends its job back to the range over the sub-page stream, and
\* changes nothing of the supervisor or of any other job; no file of a
\* sub-page whose fetch failed is ever downloaded.
C4_PageFailureIsolated ==
    /\ [](\A j \in Jobs : lastReq[j][1] = "file" => lastReq[j][2] \notin pageErrLog[j])
    /\ [][\A j \in Jobs :
            pageErrLog'[j] # pageErrLog[j] =>
              /\ pageErrLog'[j] = pageErrLog[j] \cup {pageUrl[j]}
              /\ pc[j] = "fetchingPage" /\ pc'[j] = "recvPage"
              /\ tifCh'[j] = tifCh[j]
              /\ urlsCh'[j] = urlsCh[j]
              /\ UNCHANGED <<proc, supVars>>
              /\ \A k \in Jobs \ {j} : JobState(k)' = JobState(k)]_vars

\* A job fetches the sub-page after one whose fetch failed, while another
\* job is in the middle of its own crawl.
C4_Witness ==
    \E j, k \in Jobs :
      /\ j # k
      /\ pc[j] = "fetchingPage"
      /\ pageUrl[j] - 1 \in pageErrLog[j]
      /\ pc[k] \in {"fetchingPage", "recvFile", "downloading"}

\* C5: a job that leaves the root stage without reaching discovery has
\* returned an error (Aborted) and the process is still running.
C5_RootFailureAborts ==
    [][\A j \in Jobs :
         pc[j] \in {"start", "fetchingRoot"} /\ pc'[j] \notin {"start", "fetchingRoot", "recvPage"}
           => pc'[j] = "aborted" /\ proc' = "running"]_vars

\* C6: after terminate is closed every configured job eventually returns
\* from handle (as long as the process lives; FairSpec puts no deadline on
\* the grace sleep, so the jobs are given all the time they need).
C6_CancelledJobsStop ==
    terminate ~> (proc # "running" \/ \A j \in Jobs : j <= pages => pc[j] \in Returned)

\* C7: when done is closed and no signal is buffered, the next step of main
\* is the exit through the done branch, with terminate still open and no
\* grace sleep; a process that exited through the done branch never closed
\* terminate.  (With a signal already buffered when main's select runs, the
\* select may take either branch: that case is outside the claim.)
C7_NormalExit ==
    /\ [](build = "signal" /\ proc = "exitDone" =>
            /\ ~terminate /\ mainPc = "select" /\ done
            /\ wg = 0 /\ \A j \in Jobs : j <= pages => pc[j] \in Returned)
    /\ [][build = "signal" /\ proc = "running" /\ mainPc = "select" /\ done /\ ~signalCh =>
            /\ ~terminate' /\ mainPc' = "select"
            /\ proc' = "exitDone" \/ (proc' = "running" /\ signalCh')]_vars

\* All jobs of a non-empty configuration have returned and the process has
\* exited through the done branch.
C7_Witness ==
    /\ build = "signal"
    /\ proc = "exitDone"
    /\ pages = MaxJobs
    /\ \A j \in Jobs : pc[j] \in Returned

\* C8: with a signal buffered and jobs still running, main can only take the
\* signal branch; main sleeps only after closing the one terminate channel;
\* the exit after the sleep is enabled whatever the jobs are doing, and the
\* process only exits that way with terminate closed.
C8_InterruptShutdown ==
    /\ (proc = "running" /\ mainPc = "select" /\ signalCh /\ ~done)
         => (ENABLED MainOnSignal /\ ~ENABLED MainOnDone)
    /\ mainPc = "sleeping" => terminate
    /\ (proc = "running" /\ mainPc = "sleeping") => ENABLED MainGraceExit
    /\ proc = "exitGrace" => (terminate /\ mainPc = "sleeping")

\* The process has exited after the grace sleep while one job was still in
\* a network call and another had not returned either.
C8_Witness ==
    /\ proc = "exitGrace"
    /\ \E j, k \in Jobs :
         /\ j # k
         /\ pc[j] \in InFlightPcs
         /\ pc[k] \notin Returned \cup {"idle"}

\* C9: when a job has returned Done or Cancelled, both of its streams are
\* closed (the file stream possibly gone) and no producer is left with a
\* match to send.
C9_StreamsClosed ==
    \A j \in Jobs :
      pc[j] \in {"done", "cancelled"} =>
        /\ urlsCh[j].state = "closed"
        /\ tifCh[j].state \in {"none", "closed"}
        /\ ~Sending(urlsCh[j])
        /\ ~Sending(tifCh[j])

\* Request r is the one that follows request a in the crawl order: the root,
\* then each sub-page in discovery order, each followed by its files in
\* document order.
Follows(a, r) ==
    CASE r[1] = "root" -> a = NoReq
      [] r[1] = "page" -> \/ r[2] = 1 /\ a = RootReq
                          \/ r[2] > 1 /\ a[1] \in {"page", "file"} /\ a[2] = r[2] - 1
      [] r[1] = "file" -> \/ r[3] = 1 /\ a = PageReq(r[2])
                          \/ r[3] > 1 /\ a = FileReq(r[2], r[3] - 1)
      [] OTHER -> FALSE

\* C10: a job has at most one request in flight, issues a request only when
\* none is in flight, issues them in crawl order, and fetches the next
\* sub-page only when no file of the previous one is left undelivered.
C10_Sequential ==
    /\ [](\A j \in Jobs : Cardinality(inflight[j]) <= 1)
    /\ [][\A j \in Jobs : \A r \in NewReqs(j) :
            /\ inflight[j] = {}
            /\ Follows(lastReq[j], r)
            /\ r[1] = "page" => ~Sending(tifCh[j])]_vars

\* The second file of the second sub-page is being downloaded.
C10_Witness ==
    \E j \in Jobs : inflight[j] = {FileReq(2, 2)}

\* Job j will issue no request any more while terminate stays closed: it is
\* neither before its root fetch nor between a passed poll and the request
\* that poll guards.
Spent(j) == pc[j] \notin {"idle", "start", "fetchPage", "download"}

\* C18: after terminate is closed each job issues at most one further
\* request: a job issues a request only if it is not spent, issuing one
\* makes it spent, and a spent job stays spent.
C18_AtMostOneAfterCancel ==
    [][terminate =>
         \A j \in Jobs :
           /\ Cardinality(NewReqs(j)) <= 1
           /\ NewReqs(j) # {} => (~Spent(j) /\ Spent(j)')
           /\ Spent(j) => Spent(j)']_vars

\* terminate was closed after a job passed its poll before a download: the
\* job is about to issue its one further request.
C18_Witness ==
    /\ terminate
    /\ proc = "running"
    /\ \E j \in Jobs : pc[j] = "download"

\* C20: one goroutine is started per configured job; completion (done
\* closed in part_000, the exit of main in main.go) is only signalled when
\* every configured job has been started and has returned from handle; with
\* no job configured it can be signalled at once.
C20_CompletionAfterAllReturned ==
    /\ spawned <= pages
    /\ \A j \in Jobs : pc[j] # "idle" <=> j <= spawned
    /\ (done \/ runPc = "returned") =>
         /\ spawned = pages
         /\ wg = 0
         /\ \A j \in Jobs : j <= pages => pc[j] \in Returned
    /\ proc = "exitDone" => runPc = "returned"
    /\ (build = "signal" /\ proc = "exitDone") => done
    /\ (pages = 0 /\ proc = "running" /\ runPc = "loop") => ENABLED RunWait

\* Completion was signalled in main.go after every job of a full
\* configuration returned Done.
C20_Witness ==
    /\ build = "plain"
    /\ runPc = "returned"
    /\ pages = MaxJobs
    /\ \A j \in Jobs : pc[j] = "done"

\* ======================= strings, paths, patterns =======================
\* A string is a sequence of tokens.  A token stands for a piece of text
\* that holds none of the delimiters the code looks for unless it is that
\* delimiter: "/" (path separator), "|" (alternation), "\n" (line end),
\* HrefOpen (the text href=") and Quote (the text ").

HrefOpen == "href=\""
Quote == "\""
TifExt == ".tif"
Prefix == "tileSG-"

RECURSIVE StrSplit(_, _)
\* strings.Split(s, sep) for a one-token separator: the pieces between the
\* separators, empty pieces included; one empty piece for the empty string.
StrSplit(s, sep) ==
    IF s = <<>> THEN << <<>> >>
    ELSE LET rest == StrSplit(Tail(s), sep)
         IN  IF Head(s) = sep
               THEN << <<>> >> \o rest
               ELSE << <<Head(s)>> \o rest[1] >> \o Tail(rest)

RECURSIVE StrJoin(_, _)
\* strings.Join(parts, sep).
StrJoin(parts, sep) ==
    IF parts = <<>> THEN <<>>
    ELSE IF Len(parts) = 1 THEN parts[1]
    ELSE parts[1] \o <<sep>> \o StrJoin(Tail(parts), sep)

RECURSIVE CleanStack(_, _, _)
\* The loop of path.Clean over the components of the path: empty and "."
\* components are dropped, ".." removes the component before it, is dropped
\* at the root, and is kept at the start of a relative path.
CleanStack(segs, rooted, out) ==
    IF segs = <<>> THEN out
    ELSE LET c == Head(segs)
             nxt == IF c = <<>> \/ c = <<".">> THEN out
                    ELSE IF c = <<"..">>
                      THEN IF out # <<>> /\ out[Len(out)] # <<"..">>
                             THEN SubSeq(out, 1, Len(out) - 1)
                             ELSE IF rooted THEN out ELSE Append(out, c)
                    ELSE Append(out, c)
         IN  CleanStack(Tail(segs), rooted, nxt)

\* path.Clean(s).
PathClean(s) ==
    IF s = <<>> THEN <<".">>
    ELSE LET rooted == s[1] = "/"
             out == CleanStack(StrSplit(s, "/"), rooted, <<>>)
         IN  IF rooted THEN <<"/">> \o StrJoin(out, "/")
             ELSE IF out = <<>> THEN <<".">>
             ELSE StrJoin(out, "/")

\* path.Join(elems...): empty elements are ignored, the rest is joined with
\* "/" and cleaned; the empty string when nothing is left.
PathJoin(elems) ==
    LET ne == SelectSeq(elems, LAMBDA e : e # <<>>)
    IN  IF ne = <<>> THEN <<>> ELSE PathClean(StrJoin(ne, "/"))

RECURSIVE WritePartsNoSep(_, _)
\* Faulty variant of WriteParts: the parts are not separated again.
WritePartsNoSep(parts, builder) ==
    IF parts = <<>> THEN builder
    ELSE WritePartsNoSep(Tail(parts), builder \o <<Prefix>> \o Head(parts))

RECURSIVE WriteParts(_, _)
\* The inner loop of buildLinkTemplates over the parts of one range, with
\* the text written to the strings.Builder so far.
WriteParts(parts, builder) ==
    IF parts = <<>> THEN builder
    ELSE WriteParts(Tail(parts),
                    (IF Len(builder) > 0 THEN builder \o <<"|">> ELSE builder)
                      \o <<Prefix>> \o Head(parts))

\* buildLinkTemplates(ranges).
BuildLinkTemplates(ranges) ==
    [i \in 1..Len(ranges) |-> WriteParts(StrSplit(ranges[i], "|"), <<>>)]

\* Alternative alt of the pattern href="(alt1|alt2|...)\/" matches the body
\* at position i.  The parts of a page range are taken to be literal text.
MatchAlt(body, i, alt) ==
    /\ i + Len(alt) + 2 <= Len(body)
    /\ body[i] = HrefOpen
    /\ SubSeq(body, i + 1, i + Len(alt)) = alt
    /\ body[i + Len(alt) + 1] = "/"
    /\ body[i + Len(alt) + 2] = Quote

RECURSIVE FindLinks(_, _, _)
\* re.FindAllStringSubmatch for href="(<template>)\/": the leftmost
\* non-overlapping matches from position i on, each with the text of its
\* group; of several alternatives matching at one place the first wins.
FindLinks(body, alts, i) ==
    IF i > Len(body) THEN <<>>
    ELSE LET ok == {a \in 1..Len(alts) : MatchAlt(body, i, alts[a])}
         IN  IF ok = {} THEN FindLinks(body, alts, i + 1)
             ELSE LET a == CHOOSE x \in ok : \A y \in ok : x <= y
                  IN  <<alts[a]>> \o FindLinks(body, alts, i + Len(alts[a]) + 3)

\* The places where a match of href="(.*\.tif)" that starts at i can end:
\* k is the place of a ".tif" followed by the closing quote, with no line
\* end between ("." matches no line end).
TifEnds(body, i) ==
    {k \in (i + 1)..(Len(body) - 1) :
        /\ body[k] = TifExt
        /\ body[k + 1] = Quote
        /\ \A m \in (i + 1)..k : body[m] # "\n"}

\* The end the pattern takes among the possible ones: ".*" is greedy, so the
\* last one.
TifEnd(ends) == CHOOSE k \in ends : \A m \in ends : k >= m

RECURSIVE FindTifs(_, _)
\* re.FindAllStringSubmatch for href="(.*\.tif)": the leftmost non-overlapping
\* matches from position i on, each with the text of its group.
FindTifs(body, i) ==
    IF i > Len(body) THEN <<>>
    ELSE IF body[i] = HrefOpen /\ TifEnds(body, i) # {}
      THEN LET k == TifEnd(TifEnds(body, i))
           IN  <<SubSeq(body, i + 1, k)>> \o FindTifs(body, k + 2)
      ELSE FindTifs(body, i + 1)

\* Faulty variant of TemplateLinks: the trailing slash is not added.
TemplateLinksNoSlash(pageURL, body, tpl) ==
    LET ms == FindLinks(body, StrSplit(tpl, "|"), 1)
    IN  [k \in 1..Len(ms) |->
           [pageURL EXCEPT !.path = PathJoin(<<pageURL.path, ms[k]>>)]]

\* The loop of parseURLs over the matches of one template.
TemplateLinks(pageURL, body, tpl) ==
    LET ms == FindLinks(body, StrSplit(tpl, "|"), 1)
    IN  [k \in 1..Len(ms) |->
           [pageURL EXCEPT !.path = PathJoin(<<pageURL.path, ms[k]>>) \o <<"/">>]]

RECURSIVE LinksOf(_, _, _)
\* The loop of parseURLs over the templates: the URLs in the order sent.
LinksOf(pageURL, body, tpls) ==
    IF tpls = <<>> THEN <<>>
    ELSE TemplateLinks(pageURL, body, Head(tpls)) \o LinksOf(pageURL, body, Tail(tpls))

\* parseURLs(pageURL, pageBody, pageRanges): the URLs sent on the channel.
ParseURLs(pageURL, body, ranges) ==
    LinksOf(pageURL, body, BuildLinkTemplates(ranges))

\* An href value that names a host of its own: http://host/...
IsAbsolute(m) == Len(m) >= 5 /\ SubSeq(m, 1, 3) = <<"http:", "/", "/">>

\* Faulty variant of GetTifUrls: an absolute href is resolved as a reference,
\* so that its host replaces the host of the page.
GetTifUrlsResolved(pageURL, body) ==
    LET ms == FindTifs(body, 1)
    IN  [k \in 1..Len(ms) |->
           IF IsAbsolute(ms[k])
             THEN URL("http", ms[k][4], SubSeq(ms[k], 5, Len(ms[k])))
             ELSE [pageURL EXCEPT !.path = PathJoin(<<pageURL.path, ms[k]>>)]]

\* getTifUrls(pageURL, page): the URLs sent on the channel.
GetTifUrls(pageURL, body) ==
    LET ms == FindTifs(body, 1)
    IN  [k \in 1..Len(ms) |-> [pageURL EXCEPT !.path = PathJoin(<<pageURL.path, ms[k]>>)]]

\* Faulty variant of CreateFilePath: one directory level instead of two.
CreateFilePathFlat(targetDir, urlPath) ==
    LET parts == StrSplit(urlPath, "/")
        n == Len(parts)
    IN  IF n < 3 THEN [panic |-> TRUE, dir |-> <<>>, file |-> <<>>]
        ELSE LET dir == PathJoin(<<targetDir, parts[n - 1]>>)
             IN  [panic |-> FALSE, dir |-> dir, file |-> PathJoin(<<dir, parts[n]>>)]

\* The path createFile hands to os.Create for a URL path, with the directory
\* it makes first; the slice parts[len-3:len-1] panics when the path splits
\* into fewer than three parts.
CreateFilePath(targetDir, urlPath) ==
    LET parts == StrSplit(urlPath, "/")
        n == Len(parts)
    IN  IF n < 3 THEN [panic |-> TRUE, dir |-> <<>>, file |-> <<>>]
        ELSE LET dir == PathJoin(<<targetDir, StrJoin(SubSeq(parts, n - 2, n - 1), "/")>>)
             IN  [panic |-> FALSE, dir |-> dir, file |-> PathJoin(<<dir, parts[n]>>)]

\* ======================= buildLinkTemplates on its own =======================

\* A page range is text over a digit and the separator.
RangeTokens == {"5", "|"}
RangeStrings == UNION {[1..k -> RangeTokens] : k \in 0..MaxRangeLen}

\* The values of PageParam.PageRanges handed to buildLinkTemplates.
RangeInputs == UNION {[1..k -> RangeStrings] : k \in 0..MaxRanges}

\* The process is not started; only the text model moves.
ProgramAtRest == InitProgram /\ build = "signal" /\ pages = 0

InitTpl ==
    /\ ProgramAtRest
    /\ crawl \in {[NoCrawl EXCEPT !.stage = "ranges", !.ranges = r] : r \in RangeInputs}
    /\ disk = NoDisk
    /\ dl = [j \in Jobs |-> NoDownload]
    /\ fsLog = NoLog

\* templates := buildLinkTemplates(ranges)
BuildTemplates ==
    /\ crawl.stage = "ranges"
    /\ crawl' = [crawl EXCEPT !.stage = "templates",
                              !.tpls = BuildLinkTemplates(crawl.ranges)]
    /\ UNCHANGED <<progVars, disk, dl, fsLog>>

NextTpl == BuildTemplates

SpecTpl == InitTpl /\ [][NextTpl]_vars

RECURSIVE AfterBars(_)
\* The text s with the prefix put after each separator.
AfterBars(s) ==
    IF s = <<>> THEN <<>>
    ELSE IF Head(s) = "|" THEN <<"|", Prefix>> \o AfterBars(Tail(s))
    ELSE <<Head(s)>> \o AfterBars(Tail(s))

\* C12: buildLinkTemplates returns as many templates as it was given ranges,
\* in the same order; each template is its range with the prefix tileSG- in
\* front of every part between the | separators, the parts joined by | again;
\* no ranges give no templates, and there is no other outcome.
C12_TemplatesPrefixed ==
    crawl.stage = "templates" =>
      /\ Len(crawl.tpls) = Len(crawl.ranges)
      /\ \A i \in 1..Len(crawl.ranges) :
           crawl.tpls[i] = <<Prefix>> \o AfterBars(crawl.ranges[i])

C12_Witness ==
    /\ crawl.stage = "templates"
    /\ crawl.ranges = << <<"5">>, <<"5", "|", "5">> >>
    /\ crawl.tpls = << <<"tileSG-", "5">>, <<"tileSG-", "5", "|", "tileSG-", "5">> >>

\* ======================= two-level discovery on concrete text =======================

\* A page body is a run of items: href attributes and line ends.
Href(v) == <<HrefOpen>> \o v \o <<Quote>>
LineEnd == <<"\n">>

\* What a root page holds: links to the sub-pages 5 and 6, the same link
\* without the final slash, a link to something else, line ends.
RootItems ==
    {Href(<<Prefix, "5", "/">>), Href(<<Prefix, "6", "/">>), Href(<<Prefix, "5">>),
     Href(<<"img", "/">>), LineEnd}

\* What a sub-page holds: a tile, a tile one level up, a tile on another
\* host, a link to something else, line ends.
TifItems ==
    {Href(<<"a", ".tif">>), Href(<<"..", "/", "b", ".tif">>),
     Href(<<"http:", "/", "/", "h2", "/", "a", ".tif">>), Href(<<"n", ".txt">>), LineEnd}

ItemSeqs(S) == UNION {[1..k -> S] : k \in 0..MaxItems}

RECURSIVE Flatten(_)
\* The text of a body made of the given items.
Flatten(items) ==
    IF items = <<>> THEN <<>> ELSE Head(items) \o Flatten(Tail(items))

\* PageParam.Url as url.Parse returns it: no path, the root path, a directory
\* with and without the final slash, another scheme and host.
Roots ==
    {URL("http", "h1", <<>>), URL("http", "h1", <<"/">>),
     URL("http", "h1", <<"/", "d", "/">>), URL("http", "h1", <<"/", "x", "/", "d">>),
     URL("https", "h2", <<"/", "d", "/">>)}

\* PageParam.PageRanges.
RangeConfigs ==
    {<<>>, << <<"5">> >>, << <<"5", "|", "6">> >>, << <<"6">>, <<"5">> >>,
     << <<"5">>, <<"5", "|", "6">> >>}

\* config.TargetDir.
TargetDirs == {<<"/", "out">>, <<"out">>}

InitCrawl ==
    /\ ProgramAtRest
    /\ crawl \in {[NoCrawl EXCEPT !.stage = "root", !.root = u, !.ranges = r,
                                  !.targetDir = t, !.items = its] :
                    u \in Roots, r \in RangeConfigs, t \in TargetDirs,
                    its \in ItemSeqs(RootItems)}
    /\ disk = NoDisk
    /\ dl = [j \in Jobs |-> NoDownload]
    /\ fsLog = NoLog

\* parseURLs(baseURL, html, params.PageRanges), all its sends received.
CrawlParseURLs ==
    /\ crawl.stage = "root"
    /\ crawl' = [crawl EXCEPT !.stage = "pages",
                              !.urls = ParseURLs(crawl.root, Flatten(crawl.items),
                                                 crawl.ranges)]
    /\ UNCHANGED <<progVars, disk, dl, fsLog>>

\* handle takes one of the sub-pages and fetches its body.
CrawlFetchPage ==
    /\ crawl.stage = "pages"
    /\ \E k \in 1..Len(crawl.urls), its \in ItemSeqs(TifItems) :
         crawl' = [crawl EXCEPT !.stage = "page", !.page = crawl.urls[k],
                                !.items = its, !.urls = <<>>, !.ranges = <<>>]
    /\ UNCHANGED <<progVars, disk, dl, fsLog>>

\* getTifUrls(pageUrl, html), all its sends received.
CrawlGetTifUrls ==
    /\ crawl.stage = "page"
    /\ crawl' = [crawl EXCEPT !.stage = "files",
                              !.urls = GetTifUrls(crawl.page, Flatten(crawl.items))]
    /\ UNCHANGED <<progVars, disk, dl, fsLog>>

\* handle takes one of the file URLs and downloads it.
CrawlPickFile ==
    /\ crawl.stage = "files"
    /\ \E k \in 1..Len(crawl.urls) :
         crawl' = [crawl EXCEPT !.stage = "file", !.file = crawl.urls[k],
                                !.items = <<>>, !.urls = <<>>]
    /\ UNCHANGED <<progVars, disk, dl, fsLog>>

\* createFile(url.Path): the slice panics, or os.Stat finds the directory or
\* not, os.MkdirAll and os.Create succeed or fail.
CrawlCreateFile ==
    /\ crawl.stage = "file"
    /\ LET t == CreateFilePath(crawl.targetDir, crawl.file.path)
       IN  IF t.panic
             THEN crawl' = [crawl EXCEPT !.stage = "opened",
                                         !.target = [NoTarget EXCEPT !.outcome = "panic"]]
             ELSE \E exists \in BOOLEAN, mkOk \in BOOLEAN, crOk \in BOOLEAN :
                    crawl' = [crawl EXCEPT
                      !.stage = "opened",
                      !.target = [outcome |-> IF ~exists /\ ~mkOk THEN "mkdirErr"
                                              ELSE IF ~crOk THEN "createErr"
                                              ELSE "created",
                                  dir |-> t.dir,
                                  file |-> t.file,
                                  dirExisted |-> exists,
                                  mkdir |-> ~exists /\ mkOk]]
    /\ UNCHANGED <<progVars, disk, dl, fsLog>>

NextCrawl ==
    \/ CrawlParseURLs
    \/ CrawlFetchPage
    \/ CrawlGetTifUrls
    \/ CrawlPickFile
    \/ CrawlCreateFile

SpecCrawl == InitCrawl /\ [][NextCrawl]_vars

\* ---- C14 ----
\* A path as a directory prefix: nothing for the empty path, else the path
\* ending in one slash.
AsDir(p) ==
    IF p = <<>> THEN <<>> ELSE IF p[Len(p)] = "/" THEN p ELSE p \o <<"/">>

\* The item is a link href="tileSG-<part>/" for one of the parts of range r.
IsLinkOf(item, r) ==
    \E k \in 1..Len(r) : r[k] # "|" /\ item = Href(<<Prefix, r[k], "/">>)

\* The children of one range: its links in the order of the body.
ChildrenOf(root, items, r) ==
    LET ls == SelectSeq(items, LAMBDA it : IsLinkOf(it, r))
    IN  [k \in 1..Len(ls) |->
           URL(root.scheme, root.host, AsDir(root.path) \o SubSeq(ls[k], 2, 4))]

RECURSIVE ChildrenInOrder(_, _, _)
ChildrenInOrder(root, items, rs) ==
    IF rs = <<>> THEN <<>>
    ELSE ChildrenOf(root, items, Head(rs)) \o ChildrenInOrder(root, items, Tail(rs))

\* C14: parseURLs yields the children template after template, in template
\* order, and within one template one child per link href="<segment>/" in the
\* order of the body; the path of a child is the path of the root joined with
\* the segment, plus a final slash.
C14_ChildrenInTemplateOrder ==
    crawl.stage = "pages" =>
      crawl.urls = ChildrenInOrder(crawl.root, crawl.items, crawl.ranges)

\* The single template tileSG-5 and a body with href="tileSG-5/" (after a link
\* of another sub-page): exactly one child.
C14_Witness ==
    /\ crawl.stage = "pages"
    /\ crawl.ranges = << <<"5">> >>
    /\ crawl.items = <<Href(<<Prefix, "6", "/">>), Href(<<Prefix, "5", "/">>)>>
    /\ crawl.root.path = <<"/", "x", "/", "d">>
    /\ crawl.urls = <<URL("http", "h1", <<"/", "x", "/", "d", "/", Prefix, "5", "/">>)>>

\* ---- C15 ----
\* The item is an href whose value ends in .tif.
IsTifHref(item) ==
    /\ Len(item) >= 3
    /\ item[1] = HrefOpen
    /\ item[Len(item) - 1] = TifExt

HrefValue(item) == SubSeq(item, 2, Len(item) - 1)

\* C15: getTifUrls yields one URL for each href whose value ends in .tif, in
\* the order of the body, its path being the sub-page path joined with the
\* value of the href, and nothing for the other hrefs.
C15_OneUrlPerTifHref ==
    crawl.stage = "files" =>
      LET ts == SelectSeq(crawl.items, IsTifHref)
      IN  crawl.urls =
            [k \in 1..Len(ts) |->
               [crawl.page EXCEPT
                  !.path = PathJoin(<<crawl.page.path, HrefValue(ts[k])>>)]]

\* ---- C17 ----
SameOrigin(u) == u.scheme = crawl.root.scheme /\ u.host = crawl.root.host

\* C17: every URL that parseURLs or getTifUrls produced, and so every sub-page
\* and file URL the Job goes on with, has the scheme and the host of the root
\* URL.
C17_SameOrigin ==
    /\ \A k \in 1..Len(crawl.urls) : SameOrigin(crawl.urls[k])
    /\ crawl.stage \in {"page", "files", "file", "opened"} => SameOrigin(crawl.page)
    /\ crawl.stage \in {"file", "opened"} => SameOrigin(crawl.file)

\* A sub-page of host h1 links to a tile on host h2; the URL is produced.
C17_Witness ==
    /\ crawl.stage = "files"
    /\ crawl.root.host = "h1"
    /\ crawl.items = <<Href(<<"http:", "/", "/", "h2", "/", "a", ".tif">>)>>
    /\ Len(crawl.urls) = 1

\* ---- C13 ----
\* The /-separated segments of the URL path of the file.
Segments == StrSplit(crawl.file.path, "/")

IsName(seg) == seg # <<>> /\ seg # <<".">> /\ seg # <<"..">>

\* dir followed by the given segments, each as one more level.
Under(dir, segs) ==
    StrJoin(<<dir>> \o SelectSeq(segs, LAMBDA x : x # <<>>), "/")

\* C13: for a URL path of at least three segments whose last two are names
\* and whose third from last is a name or the empty segment before a leading
\* slash, the file is created at targetDir / third from last / second from
\* last / last, in a directory that exists or has just been made; nothing else
\* of the URL enters the path.
C13_TargetPath ==
    (/\ crawl.stage = "opened"
     /\ crawl.target.outcome = "created"
     /\ Len(Segments) >= 3) =>
       LET n == Len(Segments)
       IN  (/\ IsName(Segments[n]) /\ IsName(Segments[n - 1])
            /\ (IsName(Segments[n - 2]) \/ Segments[n - 2] = <<>>)) =>
             /\ crawl.target.dir =
                  Under(crawl.targetDir, <<Segments[n - 2], Segments[n - 1]>>)
             /\ crawl.target.file =
                  Under(crawl.targetDir, <<Segments[n - 2], Segments[n - 1], Segments[n]>>)
             /\ crawl.target.dirExisted \/ crawl.target.mkdir

\* /x/d/tileSG-5/a.tif with targetDir /out is created as /out/d/tileSG-5/a.tif
\* after the directory /out/d/tileSG-5 was made.
C13_Witness ==
    /\ crawl.stage = "opened"
    /\ crawl.target.outcome = "created"
    /\ crawl.target.mkdir
    /\ crawl.targetDir = <<"/", "out">>
    /\ crawl.file.path = <<"/", "x", "/", "d", "/", Prefix, "5", "/", "a", ".tif">>
    /\ crawl.target.file = <<"/", "out", "/", "d", "/", Prefix, "5", "/", "a", ".tif">>

\* ---- C19 ----
\* C19: every file URL that the two levels of discovery produce has a path of
\* at least three /-separated parts, so the slice of createFile is in range
\* and download does not panic.
C19_SliceInRange ==
    /\ crawl.stage \in {"file", "opened"} => Len(Segments) >= 3
    /\ crawl.target.outcome # "panic"

\* ======================= downloads onto the filesystem =======================

\* The file URLs the Jobs of one run download; the first two agree in their
\* last three path segments.
FileUrls ==
    <<URL("http", "h1", <<"/", "d", "/", Prefix, "5", "/", "a", ".tif">>),
      URL("http", "h1", <<"/", "x", "/", "d", "/", Prefix, "5", "/", "a", ".tif">>),
      URL("http", "h1", <<"/", "d", "/", Prefix, "5", "/", "b", ".tif">>)>>

\* io.Copy moves the response body of URL i in two pieces.
BodyChunks == 2
Body(i) == [c \in 1..BodyChunks |-> <<i, c>>]

\* A stretch of a file that was never written reads as zero bytes.
Hole == <<0, 0>>

\* config.TargetDir of the run.
FsTargetDir == <<"/", "out">>

TargetOf(i) == CreateFilePath(FsTargetDir, FileUrls[i].path)

\* The content of the file at path p; FileExists(p) says there is one.
FileExists(p) == \E f \in disk.files : f[1] = p
Content(p) == (CHOOSE f \in disk.files : f[1] = p)[2]

\* The files with the one at path p replaced by content c.
WithFile(files, p, c) == {f \in files : f[1] # p} \cup {<<p, c>>}

\* file.Write of piece x at the offset pos of the handle.
WriteAt(c, pos, x) ==
    IF pos <= Len(c) THEN [c EXCEPT ![pos] = x]
    ELSE c \o [k \in 1..(pos - 1 - Len(c)) |-> Hole] \o <<x>>

\* Job j has the file at path p open for writing.
HasOpen(j, p) == dl[j].pc = "copying" /\ TargetOf(dl[j].url).file = p

\* The whole process is gone (log.Fatalf, panic).
AllExited == [j \in Jobs |-> [dl[j] EXCEPT !.pc = "exited"]]

InitFs ==
    /\ ProgramAtRest
    /\ crawl = NoCrawl
    /\ disk = NoDisk
    /\ dl = [j \in Jobs |-> NoDownload]
    /\ fsLog = NoLog

\* download: request(url) for the next file URL of job j; a failed request
\* is fatal for the process.
DlRequest(j) ==
    /\ dl[j].pc = "idle"
    /\ fsLog.started < MaxDownloads
    /\ \E i \in 1..Len(FileUrls), ok \in BOOLEAN :
         dl' = IF ok THEN [dl EXCEPT ![j] = [pc |-> "requested", url |-> i, off |-> 0]]
               ELSE AllExited
    /\ fsLog' = [fsLog EXCEPT !.started = @ + 1]
    /\ UNCHANGED <<progVars, crawl, disk>>

\* download: createFile(url.Path).  os.Stat, os.MkdirAll when the directory is
\* missing, os.Create, which truncates an existing file; an error of
\* MkdirAll or Create is returned to handle.
DlCreateFile(j) ==
    /\ dl[j].pc = "requested"
    /\ LET t == TargetOf(dl[j].url)
       IN  IF t.panic
             THEN dl' = AllExited /\ UNCHANGED <<disk, fsLog>>
             ELSE \E mkOk \in BOOLEAN, crOk \in BOOLEAN :
                    LET exists == t.dir \in disk.dirs
                    IN  IF ~exists /\ ~mkOk
                          THEN /\ dl' = [dl EXCEPT ![j] = NoDownload]
                               /\ UNCHANGED <<disk, fsLog>>
                          ELSE IF ~crOk
                            THEN /\ dl' = [dl EXCEPT ![j] = NoDownload]
                                 /\ disk' = [disk EXCEPT !.dirs = @ \cup {t.dir}]
                                 /\ UNCHANGED fsLog
                            ELSE /\ dl' = [dl EXCEPT ![j].pc = "copying"]
                                 /\ disk' = [dirs |-> disk.dirs \cup {t.dir},
                                             files |-> WithFile(disk.files, t.file, <<>>)]
                                 /\ fsLog' = IF \E k \in Jobs \ {j} : HasOpen(k, t.file)
                                               THEN [fsLog EXCEPT !.raced = @ \cup {t.file}]
                                               ELSE fsLog
    /\ UNCHANGED <<progVars, crawl>>

\* download: io.Copy moves the next piece of the body into the file.
DlCopy(j) ==
    /\ dl[j].pc = "copying"
    /\ dl[j].off < BodyChunks
    /\ LET p == TargetOf(dl[j].url).file
           c == IF FileExists(p) THEN Content(p) ELSE <<>>
       IN  disk' = [disk EXCEPT !.files =
                      WithFile(@, p, WriteAt(c, dl[j].off + 1, Body(dl[j].url)[dl[j].off + 1]))]
    /\ dl' = [dl EXCEPT ![j].off = @ + 1]
    /\ UNCHANGED <<progVars, crawl, fsLog>>

\* download: io.Copy fails before the end of the body (read error, client
\* timeout); the file is closed and the error returned to handle.
DlCopyFailed(j) ==
    /\ dl[j].pc = "copying"
    /\ dl[j].off < BodyChunks
    /\ dl' = [dl EXCEPT ![j] = NoDownload]
    /\ UNCHANGED <<progVars, crawl, disk, fsLog>>

\* download: io.Copy reached the end of the body; the file is closed.
DlDone(j) ==
    /\ dl[j].pc = "copying"
    /\ dl[j].off = BodyChunks
    /\ LET p == TargetOf(dl[j].url).file
       IN  fsLog' = [fsLog EXCEPT
                       !.lastOk = {e \in @ : e[1] # p} \cup {<<p, dl[j].url>>}]
    /\ dl' = [dl EXCEPT ![j] = NoDownload]
    /\ UNCHANGED <<progVars, crawl, disk>>

NextFs ==
    \/ \E j \in Jobs : DlRequest(j)
    \/ \E j \in Jobs : DlCreateFile(j)
    \/ \E j \in Jobs : DlCopy(j)
    \/ \E j \in Jobs : DlCopyFailed(j)
    \/ \E j \in Jobs : DlDone(j)

SpecFs == InitFs /\ [][NextFs]_vars

\* C11: the Jobs share no mutable state; in particular no two Jobs have the
\* same local target file open for writing at the same time.
C11_NoSharedOpenFile ==
    \A j, k \in Jobs :
      (j # k /\ dl[j].pc = "copying" /\ dl[k].pc = "copying") =>
        TargetOf(dl[j].url).file # TargetOf(dl[k].url).file

\* C16: whenever no download is writing a file, the file holds exactly the
\* body of the most recent successful download to its path.  Downloads to the
\* path that overlapped in time, and runs cut short by the end of the process,
\* are left aside.
C16_LastSuccessfulBody ==
    \A e \in fsLog.lastOk :
      (/\ e[1] \notin fsLog.raced
       /\ \A j \in Jobs : dl[j].pc # "exited" /\ ~HasOpen(j, e[1])) =>
        (FileExists(e[1]) /\ Content(e[1]) = Body(e[2]))
====
